---- MODULE Spec2Model ----
(***************************************************************************)
(* Model of the Markdown -> Word export plugin (src/main.ts, class         *)
(* MyPlugin, lines 359-797).                                               *)
(*                                                                         *)
(* Strings are sequences of one-character strings; JavaScript's 0-based    *)
(* offsets are kept in the image header code (At), the text code uses      *)
(* 1-based positions of the same characters.                               *)
(***************************************************************************)
EXTENDS Integers, Sequences, FiniteSets, TLC

VARIABLES
    fmt,      \* processFormattedText under test: [text, children, done]
    ln,       \* processLine under test: [line, out, done]
    img,      \* processImage under test: [line, out, done]
    settings, \* this.settings: [imageMaxWidth, imageMaxHeight]
    vault,    \* app.vault assets: path -> [kind, readable, data]
    docs,     \* per view: [hasFile, basename, parent, content]
    currentMarkdownView, \* this.currentMarkdownView (0 = null)
    ex,       \* per invocation of exportCurrentMarkdownToWord: its locals
    folders,  \* folder paths that exist (adapter.exists on a directory)
    files     \* exported files that exist: set of [dir, name, src]

vars == <<fmt, ln, img, settings, vault, docs, currentMarkdownView, ex, folders, files>>

-----------------------------------------------------------------------------
(* Bounds of the model.                                                    *)

\* longest text handed to processFormattedText in SpecFmt
MaxLen == 6

\* longest body appended to a prefix in SpecLine
MaxBody == 3

\* largest small pixel count in an image header
MaxPix == 3

\* most bytes after the SOF0 segment of a JPEG file
MaxTail == 3

\* largest small configured image bound
MaxBound == 3

\* most lines of a document in Spec
MaxLines == 2

\* largest number of an earlier export in the exports folder in Spec
MaxEarlier == 2

-----------------------------------------------------------------------------
(* String helpers.                                                         *)

Min(S) == CHOOSE x \in S : \A y \in S : x <= y

\* s.startsWith(p)
StartsWith(s, p) == Len(s) >= Len(p) /\ SubSeq(s, 1, Len(p)) = p

\* s.endsWith(p)
EndsWith(s, p) == Len(s) >= Len(p) /\ SubSeq(s, Len(s) - Len(p) + 1, Len(s)) = p

\* 1-based position of the first occurrence of p in s at or after k; 0 if none
FindFrom(s, p, k) ==
    LET S == {i \in k..(Len(s) - Len(p) + 1) : SubSeq(s, i, i + Len(p) - 1) = p}
    IN IF S = {} THEN 0 ELSE Min(S)

\* s.includes(p)
Includes(s, p) == FindFrom(s, p, 1) > 0

\* the characters a regex '.' does not match
LineTerminators == {"\n", "\r"}

\* every character of s[a..b] is matched by '.'
AllDot(s, a, b) == \A i \in a..b : s[i] \notin LineTerminators

\* all strings over alphabet A of length at most n
RECURSIVE StringsUpTo(_, _)
StringsUpTo(A, n) ==
    IF n = 0 THEN {<<>>}
    ELSE LET prev == StringsUpTo(A, n - 1)
         IN prev \cup {Append(s, c) : s \in {t \in prev : Len(t) = n - 1}, c \in A}

-----------------------------------------------------------------------------
(* docx runs.  One record shape for TextRun and ImageRun.                  *)

NoImage == [type |-> "", width |-> 0, height |-> 0, data |-> <<>>]

\* new TextRun({ text })
PlainRun(t) ==
    [text |-> t, undef |-> FALSE, bold |-> FALSE, italics |-> FALSE,
     style |-> "", image |-> NoImage]

\* new TextRun({ text: boldText, bold: true }); boldText may be undefined
BoldRun(t, isUndef) ==
    [text |-> t, undef |-> isUndef, bold |-> TRUE, italics |-> FALSE,
     style |-> "", image |-> NoImage]

-----------------------------------------------------------------------------
(* processFormattedText                                                    *)

StarStar == <<"*", "*">>
UnderUnder == <<"_", "_">>

\* One alternative of boldRegex tried at position i: d(.*?)d.  The position
\* of the closing delimiter, 0 when the alternative does not match at i.
DelimCloseAt(s, i, d) ==
    IF i + 1 <= Len(s) /\ SubSeq(s, i, i + 1) = d
    THEN LET j == FindFrom(s, d, i + 2)
         IN IF j > 0 /\ AllDot(s, i + 2, j - 1) THEN j ELSE 0
    ELSE 0

\* boldRegex.exec(text) with lastIndex = from - 1: the leftmost match at or
\* after position from.  [found, index, close, first]: index is the (1-based)
\* start, close the start of the closing delimiter, first whether the
\* alternative \*\*(.*?)\*\* matched (else __(.*?)__).
BoldExec(s, from) ==
    LET S == {i \in from..Len(s) :
                 DelimCloseAt(s, i, StarStar) > 0 \/ DelimCloseAt(s, i, UnderUnder) > 0}
    IN IF S = {} THEN [found |-> FALSE, index |-> 0, close |-> 0, first |-> FALSE]
       ELSE LET i == Min(S)
                a == DelimCloseAt(s, i, StarStar)
            IN IF a > 0
               THEN [found |-> TRUE, index |-> i, close |-> a, first |-> TRUE]
               ELSE [found |-> TRUE, index |-> i,
                     close |-> DelimCloseAt(s, i, UnderUnder), first |-> FALSE]

\* if (match.index > currentIndex) children.push(plain text before the match)
LeadingRuns(text, currentIndex, index) ==
    IF index > currentIndex
    THEN <<PlainRun(SubSeq(text, currentIndex, index - 1))>>
    ELSE <<>>

\* const boldText = match[1] || match[2]: an empty first capture is falsy and
\* match[2] is then undefined; an empty second capture gives "".
MatchedBoldRun(text, m) ==
    LET cap == SubSeq(text, m.index + 2, m.close - 1)
    IN BoldRun(cap, m.first /\ cap = <<>>)

\* Mutant of TrailingRuns: the rest is sliced one character too late.
TrailingRunsOffByOne(text, currentIndex) ==
    IF currentIndex <= Len(text)
    THEN <<PlainRun(SubSeq(text, currentIndex + 1, Len(text)))>>
    ELSE <<>>

\* Mutant of TrailingRuns: the text after the last match is kept only when
\* nothing matched.
TrailingRunsOnlyWhenNoMatch(text, currentIndex) ==
    IF currentIndex = 1 /\ currentIndex <= Len(text)
    THEN <<PlainRun(SubSeq(text, currentIndex, Len(text)))>>
    ELSE <<>>

\* if (currentIndex < text.length) children.push(plain rest)
TrailingRuns(text, currentIndex) ==
    IF currentIndex <= Len(text)
    THEN <<PlainRun(SubSeq(text, currentIndex, Len(text)))>>
    ELSE <<>>

\* the while loop over boldRegex.exec; currentIndex is 1-based here
RECURSIVE FormatLoop(_, _, _)
FormatLoop(text, currentIndex, children) ==
    LET m == BoldExec(text, currentIndex)
    IN IF m.found
       THEN FormatLoop(text, m.close + 2,
                       children \o LeadingRuns(text, currentIndex, m.index)
                                \o <<MatchedBoldRun(text, m)>>)
       ELSE children \o TrailingRuns(text, currentIndex)

\* private processFormattedText(text: string): TextRun[]
ProcessFormattedText(text) ==
    LET children == FormatLoop(text, 1, <<>>)
    IN IF Len(children) = 0 THEN <<PlainRun(text)>> ELSE children

-----------------------------------------------------------------------------
(* getImagePath                                                            *)

\* leftmost match of open(.*?)close in s: [found, cap]
LazyBetween(s, open, close) ==
    LET S == {i \in 1..Len(s) :
                 /\ i + Len(open) - 1 <= Len(s)
                 /\ SubSeq(s, i, i + Len(open) - 1) = open
                 /\ LET j == FindFrom(s, close, i + Len(open))
                    IN j > 0 /\ AllDot(s, i + Len(open), j - 1)}
    IN IF S = {} THEN [found |-> FALSE, cap |-> <<>>]
       ELSE LET i == Min(S)
                j == FindFrom(s, close, i + Len(open))
            IN [found |-> TRUE, cap |-> SubSeq(s, i + Len(open), j - 1)]

\* leftmost match of open(.*?)\]\((.*?)\) in s: [found, first, second]
LinkMatch(s, open) ==
    LET mid == <<"]", "(">>
        Ok(i) ==
            /\ i + Len(open) - 1 <= Len(s)
            /\ SubSeq(s, i, i + Len(open) - 1) = open
            /\ LET j == FindFrom(s, mid, i + Len(open))
               IN /\ j > 0
                  /\ AllDot(s, i + Len(open), j - 1)
                  /\ LET k == FindFrom(s, <<")">>, j + 2)
                     IN k > 0 /\ AllDot(s, j + 2, k - 1)
        S == {i \in 1..Len(s) : Ok(i)}
    IN IF S = {} THEN [found |-> FALSE, first |-> <<>>, second |-> <<>>]
       ELSE LET i == Min(S)
                j == FindFrom(s, mid, i + Len(open))
                k == FindFrom(s, <<")">>, j + 2)
            IN [found |-> TRUE,
                first |-> SubSeq(s, i + Len(open), j - 1),
                second |-> SubSeq(s, j + 2, k - 1)]

\* private getImagePath(line): { url, alt } | null
GetImagePath(line) ==
    LET obsidianMatch == LazyBetween(line, <<"!", "[", "[">>, <<"]", "]">>)
        markdownMatch == LinkMatch(line, <<"!", "[">>)
    IN IF obsidianMatch.found
       THEN [found |-> TRUE, url |-> obsidianMatch.cap, alt |-> obsidianMatch.cap]
       ELSE IF markdownMatch.found
       THEN [found |-> TRUE, url |-> markdownMatch.second, alt |-> markdownMatch.first]
       ELSE [found |-> FALSE, url |-> <<>>, alt |-> <<>>]

-----------------------------------------------------------------------------
(* processImage                                                            *)

UpperCase == <<"A", "B", "C", "D", "E", "F", "G", "H", "I", "J", "K", "L", "M",
               "N", "O", "P", "Q", "R", "S", "T", "U", "V", "W", "X", "Y", "Z">>
LowerCase == <<"a", "b", "c", "d", "e", "f", "g", "h", "i", "j", "k", "l", "m",
               "n", "o", "p", "q", "r", "s", "t", "u", "v", "w", "x", "y", "z">>

\* url.toLowerCase()
ToLowerCase(s) ==
    [i \in 1..Len(s) |->
        IF \E k \in 1..26 : UpperCase[k] = s[i]
        THEN LowerCase[CHOOSE k \in 1..26 : UpperCase[k] = s[i]]
        ELSE s[i]]

\* the chain of endsWith tests: the image type, "svg" for the rejected suffix
ImageTypeOf(url) ==
    LET lowerUrl == ToLowerCase(url)
    IN IF EndsWith(lowerUrl, <<".", "p", "n", "g">>) THEN "png"
       ELSE IF EndsWith(lowerUrl, <<".", "j", "p", "g">>)
               \/ EndsWith(lowerUrl, <<".", "j", "p", "e", "g">>) THEN "jpg"
       ELSE IF EndsWith(lowerUrl, <<".", "g", "i", "f">>) THEN "gif"
       ELSE IF EndsWith(lowerUrl, <<".", "b", "m", "p">>) THEN "bmp"
       ELSE IF EndsWith(lowerUrl, <<".", "s", "v", "g">>) THEN "svg"
       ELSE "jpg"

\* arr[i] of a Uint8Array, i 0-based: a byte, or undefined past the end
Undefined == -1
At(arr, i) == IF i >= 0 /\ i < Len(arr) THEN arr[i + 1] ELSE Undefined

\* ToInt32 of an operand of << or |: undefined counts as 0
Operand(x) == IF x = Undefined THEN 0 ELSE x

\* (a << 24) | (b << 16) | (c << 8) | d in 32-bit two's complement: the
\* shifted fields do not overlap, and a << 24 is negative when a >= 128
Int32BE(a, b, c, d) ==
    (IF Operand(a) >= 128 THEN Operand(a) - 256 ELSE Operand(a)) * 16777216
        + Operand(b) * 65536 + Operand(c) * 256 + Operand(d)

\* (a << 8) | b
Int16BE(a, b) == Operand(a) * 256 + Operand(b)

IsPngHeader(arr) ==
    At(arr, 0) = 137 /\ At(arr, 1) = 80 /\ At(arr, 2) = 78 /\ At(arr, 3) = 71

IsJpegHeader(arr) == At(arr, 0) = 255 /\ At(arr, 1) = 216

\* Mutant of JpegScanEnd: the scan runs to the end of the buffer.
JpegScanEndWholeBuffer(arr) == Len(arr)

\* while (pos < arr.length - 10): the first position the scan does not visit
JpegScanEnd(arr) == Len(arr) - 10

\* the while loop: the first pos in 2 .. length-11 holding FF C0, -1 if none
JpegSof0(arr) ==
    LET S == {pos \in 2..(JpegScanEnd(arr) - 1) :
                 At(arr, pos) = 255 /\ At(arr, pos + 1) = 192}
    IN IF S = {} THEN -1 ELSE Min(S)

\* originalWidth, originalHeight after the header sniffing (0, 0 when neither
\* header is recognised or no SOF0 marker is found)
OriginalSize(arr) ==
    IF IsPngHeader(arr)
    THEN [width |-> Int32BE(At(arr, 16), At(arr, 17), At(arr, 18), At(arr, 19)),
          height |-> Int32BE(At(arr, 20), At(arr, 21), At(arr, 22), At(arr, 23))]
    ELSE IF IsJpegHeader(arr) /\ JpegSof0(arr) >= 0
    THEN LET pos == JpegSof0(arr)
         IN [width |-> Int16BE(At(arr, pos + 7), At(arr, pos + 8)),
             height |-> Int16BE(At(arr, pos + 5), At(arr, pos + 6))]
    ELSE [width |-> 0, height |-> 0]

\* Math.round(x * n / d) for x, n, d > 0: halves round up.  The product is
\* taken exactly; the double product differs from it by less than the gap
\* to the nearest half-integer unless it is one, where the code may round
\* down instead.
RoundScaled(x, n, d) == (2 * x * n + d) \div (2 * d)

\* Math.min(maxWidth / originalWidth, maxHeight / originalHeight, 1) as a
\* fraction [n, d]
ScaleOf(ow, oh, maxWidth, maxHeight) ==
    LET byWidth == [n |-> maxWidth, d |-> ow]
        byHeight == [n |-> maxHeight, d |-> oh]
        least == IF byWidth.n * byHeight.d <= byHeight.n * byWidth.d
                 THEN byWidth ELSE byHeight
    IN IF least.n < least.d THEN least ELSE [n |-> 1, d |-> 1]

\* Mutant of ScaledSize: the scale is not capped at 1.
ScaledSizeUncapped(orig, maxWidth, maxHeight) ==
    IF orig.width > 0 /\ orig.height > 0
    THEN LET byWidth == [n |-> maxWidth, d |-> orig.width]
             byHeight == [n |-> maxHeight, d |-> orig.height]
             scale == IF byWidth.n * byHeight.d <= byHeight.n * byWidth.d
                      THEN byWidth ELSE byHeight
         IN [width |-> RoundScaled(orig.width, scale.n, scale.d),
             height |-> RoundScaled(orig.height, scale.n, scale.d)]
    ELSE [width |-> maxWidth, height |-> maxHeight]

\* width, height of the ImageRun: the defaults, replaced by the scaled
\* original size when both original dimensions are positive
ScaledSize(orig, maxWidth, maxHeight) ==
    IF orig.width > 0 /\ orig.height > 0
    THEN LET scale == ScaleOf(orig.width, orig.height, maxWidth, maxHeight)
         IN [width |-> RoundScaled(orig.width, scale.n, scale.d),
             height |-> RoundScaled(orig.height, scale.n, scale.d)]
    ELSE [width |-> maxWidth, height |-> maxHeight]

\* new ImageRun({ data, transformation: { width, height }, type })
ImageRun(data, size, type) ==
    [text |-> <<>>, undef |-> TRUE, bold |-> FALSE, italics |-> FALSE, style |-> "",
     image |-> [type |-> type, width |-> size.width, height |-> size.height,
                data |-> data]]

\* a null result of processImage
NullImage == [ok |-> FALSE, run |-> PlainRun(<<>>)]

\* Mutant of ProcessImage: the header is read only when the suffix gave
\* png or jpg by name; .gif, .bmp and unknown suffixes keep the bounds.
ProcessImageBySuffix(line, v, s) ==
    LET imageInfo == GetImagePath(line)
    IN IF ~imageInfo.found THEN NullImage
       ELSE IF imageInfo.url \notin DOMAIN v THEN NullImage
       ELSE IF v[imageInfo.url].kind # "file" THEN NullImage
       ELSE IF ~v[imageInfo.url].readable THEN NullImage
       ELSE IF ImageTypeOf(imageInfo.url) = "svg" THEN NullImage
       ELSE LET imageData == v[imageInfo.url].data
                lowerUrl == ToLowerCase(imageInfo.url)
                named == \/ EndsWith(lowerUrl, <<".", "p", "n", "g">>)
                         \/ EndsWith(lowerUrl, <<".", "j", "p", "g">>)
                         \/ EndsWith(lowerUrl, <<".", "j", "p", "e", "g">>)
            IN [ok |-> TRUE,
                run |-> ImageRun(imageData,
                                 IF named
                                 THEN ScaledSize(OriginalSize(imageData),
                                                 s.imageMaxWidth, s.imageMaxHeight)
                                 ELSE [width |-> s.imageMaxWidth,
                                       height |-> s.imageMaxHeight],
                                 ImageTypeOf(imageInfo.url))]

\* private async processImage(line): ImageRun | null, as [ok, run].  v is
\* the vault (path -> [kind, readable, data]): a path outside it has no
\* entry, kind "folder" is not a TFile, and readBinary throws on a file that
\* is not readable.
ProcessImage(line, v, s) ==
    LET imageInfo == GetImagePath(line)
    IN IF ~imageInfo.found THEN NullImage
       ELSE IF imageInfo.url \notin DOMAIN v THEN NullImage
       ELSE IF v[imageInfo.url].kind # "file" THEN NullImage
       ELSE IF ~v[imageInfo.url].readable THEN NullImage
       ELSE IF ImageTypeOf(imageInfo.url) = "svg" THEN NullImage
       ELSE LET imageData == v[imageInfo.url].data
            IN [ok |-> TRUE,
                run |-> ImageRun(imageData,
                                 ScaledSize(OriginalSize(imageData),
                                            s.imageMaxWidth, s.imageMaxHeight),
                                 ImageTypeOf(imageInfo.url))]

-----------------------------------------------------------------------------
(* processLine                                                             *)

\* One record shape for every Paragraph: children (runs) or text, and the
\* options the code sets: heading (0 = none), style, bullet, numbering
\* (reference "1", level 0), quote (indent 720, spacing, shading), spacing
\* (before/after 240 only).
Paragraph(children, text, heading, style) ==
    [children |-> children, text |-> text, heading |-> heading, style |-> style,
     bullet |-> FALSE, numbering |-> FALSE, quote |-> FALSE, spacing |-> FALSE]

WhiteSpace == {" ", "\t", "\n", "\r"}
Digits == {"0", "1", "2", "3", "4", "5", "6", "7", "8", "9"}

\* s.slice(n)
Drop(s, n) == SubSeq(s, n + 1, Len(s))

\* line.trim() === ''
IsBlank(line) == \A i \in 1..Len(line) : line[i] \in WhiteSpace

\* length of the match of /^\d+\. / in line, 0 when it does not match
OrderedPrefix(line) ==
    LET S == {k \in 1..Len(line) :
                 /\ \A i \in 1..k : line[i] \in Digits
                 /\ k + 2 <= Len(line)
                 /\ line[k + 1] = "."
                 /\ line[k + 2] = " "}
    IN IF S = {} THEN 0 ELSE Min(S) + 2

\* the backtick character U+0060, which a TLA+ string literal cannot hold
Backtick == "BACKTICK"

\* line.replace(/^BACKTICK/, '').replace(/BACKTICK$/, '')
StripBackticks(line) ==
    LET a == IF StartsWith(line, <<Backtick>>) THEN Drop(line, 1) ELSE line
    IN IF EndsWith(a, <<Backtick>>) THEN SubSeq(a, 1, Len(a) - 1) ELSE a

\* line.replace(/^[*-]{3,}$/, '')
StripRule(line) ==
    IF Len(line) >= 3 /\ \A i \in 1..Len(line) : line[i] \in {"*", "-"}
    THEN <<>> ELSE line

\* s with the characters at the positions in drop removed
Without(s, drop) ==
    LET keep == {i \in 1..Len(s) : i \notin drop}
        Nth(n) == CHOOSE i \in keep : Cardinality({j \in keep : j < i}) = n - 1
    IN [n \in 1..Cardinality(keep) |-> s[Nth(n)]]

\* line.replace(/^\*|\_|\*$/g, ''): a leading *, every _, a trailing *
StripItalic(line) ==
    Without(line, {i \in 1..Len(line) :
                      \/ i = 1 /\ line[i] = "*"
                      \/ line[i] = "_"
                      \/ i = Len(line) /\ line[i] = "*"})

\* line.replace(/^\*\*\*|\_\_\_|\*\*\*$/g, '') scanning from position i
RECURSIVE StripBoldItalicFrom(_, _)
StripBoldItalicFrom(line, i) ==
    IF i > Len(line) THEN <<>>
    ELSE IF i + 2 <= Len(line)
            /\ \/ i = 1 /\ SubSeq(line, i, i + 2) = <<"*", "*", "*">>
               \/ SubSeq(line, i, i + 2) = <<"_", "_", "_">>
               \/ i + 2 = Len(line) /\ SubSeq(line, i, i + 2) = <<"*", "*", "*">>
    THEN StripBoldItalicFrom(line, i + 3)
    ELSE <<line[i]>> \o StripBoldItalicFrom(line, i + 1)

\* Mutant of Branch: the triple-marker test stands before the thematic-break,
\* bold and italic tests.
BranchTripleFirst(line) ==
    IF StartsWith(line, <<"#", " ">>) THEN 1
    ELSE IF StartsWith(line, <<"#", "#", " ">>) THEN 2
    ELSE IF StartsWith(line, <<"#", "#", "#", " ">>) THEN 3
    ELSE IF IsBlank(line) THEN 4
    ELSE IF StartsWith(line, <<">", " ">>) \/ StartsWith(line, <<">">>) THEN 5
    ELSE IF StartsWith(line, <<"-", " ">>) \/ StartsWith(line, <<"*", " ">>) THEN 6
    ELSE IF OrderedPrefix(line) > 0 THEN 7
    ELSE IF StartsWith(line, <<Backtick, Backtick, Backtick>>) THEN 8
    ELSE IF StartsWith(line, <<Backtick>>) THEN 9
    ELSE IF StartsWith(line, <<"*", "*", "*">>) \/ StartsWith(line, <<"_", "_", "_">>) THEN 15
    ELSE IF StartsWith(line, <<"-", "-", "-">>) THEN 10
    ELSE IF StartsWith(line, <<"[">>) /\ Includes(line, <<"]", "(">>) THEN 11
    ELSE IF StartsWith(line, <<"!", "[">>) THEN 12
    ELSE IF StartsWith(line, <<"*", "*">>) \/ StartsWith(line, <<"_", "_">>) THEN 13
    ELSE IF StartsWith(line, <<"*">>) \/ StartsWith(line, <<"_">>) THEN 14
    ELSE 16

\* The branch of the if / else-if chain that processLine takes for line,
\* numbered in source order; 16 is the code after the chain.
Branch(line) ==
    IF StartsWith(line, <<"#", " ">>) THEN 1
    ELSE IF StartsWith(line, <<"#", "#", " ">>) THEN 2
    ELSE IF StartsWith(line, <<"#", "#", "#", " ">>) THEN 3
    ELSE IF IsBlank(line) THEN 4
    ELSE IF StartsWith(line, <<">", " ">>) \/ StartsWith(line, <<">">>) THEN 5
    ELSE IF StartsWith(line, <<"-", " ">>) \/ StartsWith(line, <<"*", " ">>) THEN 6
    ELSE IF OrderedPrefix(line) > 0 THEN 7
    ELSE IF StartsWith(line, <<Backtick, Backtick, Backtick>>) THEN 8
    ELSE IF StartsWith(line, <<Backtick>>) THEN 9
    ELSE IF StartsWith(line, <<"-", "-", "-">>) \/ StartsWith(line, <<"*", "*", "*">>) THEN 10
    ELSE IF StartsWith(line, <<"[">>) /\ Includes(line, <<"]", "(">>) THEN 11
    ELSE IF StartsWith(line, <<"!", "[">>) THEN 12
    ELSE IF StartsWith(line, <<"*", "*">>) \/ StartsWith(line, <<"_", "_">>) THEN 13
    ELSE IF StartsWith(line, <<"*">>) \/ StartsWith(line, <<"_">>) THEN 14
    ELSE IF StartsWith(line, <<"*", "*", "*">>) \/ StartsWith(line, <<"_", "_", "_">>) THEN 15
    ELSE 16

\* Mutant of HeadingParagraph: every heading gets HeadingLevel.HEADING_1.
HeadingParagraphLevelOne(line, level) ==
    Paragraph(ProcessFormattedText(Drop(line, level + 1)), <<>>, 1, "")

\* the three heading branches: line.replace(/^#{level} /, '') formatted
HeadingParagraph(line, level) ==
    Paragraph(ProcessFormattedText(Drop(line, level + 1)), <<>>, level, "")

\* the trailing return: new Paragraph({ children: processFormattedText(line) })
DefaultParagraph(line) == Paragraph(ProcessFormattedText(line), <<>>, 0, "")

\* Mutant of LinkParagraph: the display text is taken greedily, up to the
\* last "](" of the line.
LinkParagraphGreedy(line) ==
    LET match == LinkMatch(line, <<"[">>)
        S == {j \in 2..Len(line) - 1 : SubSeq(line, j, j + 1) = <<"]", "(">>}
        last == CHOOSE j \in S : \A k \in S : k <= j
    IN IF match.found
       THEN Paragraph(<<[PlainRun(SubSeq(line, 2, last - 1)) EXCEPT !.style = "Hyperlink"]>>,
                      <<>>, 0, "")
       ELSE DefaultParagraph(line)

\* the link branch: a Hyperlink-styled run when the regex matches; without
\* a match nothing is returned and control reaches the trailing return
LinkParagraph(line) ==
    LET match == LinkMatch(line, <<"[">>)
    IN IF match.found
       THEN Paragraph(<<[PlainRun(match.first) EXCEPT !.style = "Hyperlink"]>>, <<>>, 0, "")
       ELSE DefaultParagraph(line)

\* the placeholder text "[<message>: ${line}]" of a failed image; the
\* message is written in ASCII here
FailedPrefix == <<"[", "I", "M", "G", "-", "F", "A", "I", "L", ":", " ">>
FailedText(line) == FailedPrefix \o line \o <<"]">>

\* Mutant of ImageParagraph: the null check is missing.
ImageParagraphUnchecked(line, imageRun) ==
    [Paragraph(<<imageRun.run>>, <<>>, 0, "") EXCEPT !.spacing = TRUE]

\* the image branch after processImage returned imageRun
ImageParagraph(line, imageRun) ==
    IF imageRun.ok
    THEN [Paragraph(<<imageRun.run>>, <<>>, 0, "") EXCEPT !.spacing = TRUE]
    ELSE Paragraph(<<>>, FailedText(line), 0, "")

\* private async processLine(line): Paragraph, with the vault v and the
\* settings s that processImage reads
ProcessLine(line, v, s) ==
    LET b == Branch(line)
    IN CASE b \in 1..3 -> HeadingParagraph(line, b)
         [] b = 4 -> Paragraph(<<>>, <<>>, 0, "")
         [] b = 5 ->
              [Paragraph(ProcessFormattedText(
                             IF StartsWith(line, <<">", " ">>) THEN Drop(line, 2)
                             ELSE Drop(line, 1)), <<>>, 0, "")
                  EXCEPT !.quote = TRUE]
         [] b = 6 -> [Paragraph(<<PlainRun(Drop(line, 2))>>, <<>>, 0, "") EXCEPT !.bullet = TRUE]
         [] b = 7 ->
              [Paragraph(<<PlainRun(Drop(line, OrderedPrefix(line)))>>, <<>>, 0, "")
                  EXCEPT !.numbering = TRUE]
         [] b = 8 -> Paragraph(<<>>, Drop(line, 3), 0, "codeBlock")
         [] b = 9 -> Paragraph(<<>>, StripBackticks(line), 0, "inlineCode")
         [] b = 10 -> Paragraph(<<>>, StripRule(line), 0, "horizontalLine")
         [] b = 11 -> LinkParagraph(line)
         [] b = 12 -> ImageParagraph(line, ProcessImage(line, v, s))
         [] b = 13 -> DefaultParagraph(line)
         [] b = 14 -> Paragraph(<<[PlainRun(StripItalic(line)) EXCEPT !.italics = TRUE]>>,
                                <<>>, 0, "")
         [] b = 15 ->
              Paragraph(<<[PlainRun(StripBoldItalicFrom(line, 1))
                              EXCEPT !.bold = TRUE, !.italics = TRUE]>>, <<>>, 0, "")
         [] OTHER -> DefaultParagraph(line)

-----------------------------------------------------------------------------
(* Values of the variables a specification does not use.                   *)

\* DEFAULT_SETTINGS.imageMaxWidth, .imageMaxHeight
DefaultImageMaxWidth == 400
DefaultImageMaxHeight == 300
DEFAULT_SETTINGS ==
    [imageMaxWidth |-> DefaultImageMaxWidth, imageMaxHeight |-> DefaultImageMaxHeight]

FmtIdle == [text |-> <<>>, children |-> <<>>, done |-> FALSE]
LnIdle == [line |-> <<>>, out |-> Paragraph(<<>>, <<>>, 0, ""), done |-> FALSE]
ImgIdle == [line |-> <<>>, out |-> NullImage, done |-> FALSE]

NoExport ==
    /\ docs = <<>>
    /\ currentMarkdownView = 0
    /\ ex = <<>>
    /\ folders = {}
    /\ files = {}

-----------------------------------------------------------------------------
(* SpecFmt: processFormattedText applied to every text over FmtAlphabet of *)
(* length at most MaxLen.                                                  *)

FmtAlphabet == {"*", "_", "a", "\r"}

InitFmt ==
    /\ fmt \in {[text |-> t, children |-> <<>>, done |-> FALSE] :
                   t \in StringsUpTo(FmtAlphabet, MaxLen)}
    /\ ln = LnIdle
    /\ img = ImgIdle
    /\ settings = DEFAULT_SETTINGS
    /\ vault = <<>>
    /\ NoExport

CallFormat ==
    /\ ~fmt.done
    /\ fmt' = [fmt EXCEPT !.children = ProcessFormattedText(fmt.text), !.done = TRUE]
    /\ UNCHANGED <<ln, img, settings, vault, docs, currentMarkdownView, ex, folders, files>>

NextFmt == CallFormat

SpecFmt == InitFmt /\ [][NextFmt]_vars

-----------------------------------------------------------------------------
(* Image files.                                                            *)

\* the four bytes of a PNG width or height field
Quads ==
    {<<0, 0, 0, n>> : n \in 0..MaxPix}
        \cup {<<0, 0, 3, 32>>, <<0, 0, 2, 88>>, <<0, 1, 0, 0>>,
              <<128, 0, 0, 0>>, <<255, 255, 255, 255>>}

\* the two bytes of a JPEG SOF0 height or width field
Pairs == {<<0, 0>>, <<0, 1>>, <<0, MaxPix>>, <<3, 32>>, <<255, 255>>}

Zeros(n) == [i \in 1..n |-> 0]

\* signature (8 bytes), IHDR length and tag (8 bytes), width, height
PngFile(w, h) == <<137, 80, 78, 71, 13, 10, 26, 10, 0, 0, 0, 13, 73, 72, 68, 82>> \o w \o h

\* SOI, pad bytes, an SOF0 segment (marker, length, precision, height,
\* width), tail bytes
JpegFile(pad, h, w, tail) ==
    <<255, 216>> \o Zeros(pad) \o <<255, 192, 0, 17, 8>> \o h \o w \o Zeros(tail)

Buffers ==
    {PngFile(w, h) : w \in Quads, h \in Quads}
        \cup {SubSeq(PngFile(<<0, 0, 0, 2>>, <<0, 0, 0, 1>>), 1, n) : n \in {4, 18, 20, 22}}
        \cup {JpegFile(pad, h, w, tail) : pad \in 0..1, h \in Pairs, w \in Pairs, tail \in 0..MaxTail}
        \cup {<<>>, <<255>>, <<255, 216>>, <<255, 216, 255, 192>>,
              <<255, 216>> \o Zeros(9), <<255, 216>> \o Zeros(12),
              <<71, 73, 70, 56>> \o Zeros(4), <<66, 77>> \o Zeros(24)}

\* an 800 x 600 PNG
SamplePng == PngFile(<<0, 0, 3, 32>>, <<0, 0, 2, 88>>)

File(data) == [kind |-> "file", readable |-> TRUE, data |-> data]
UnreadableFile == [kind |-> "file", readable |-> FALSE, data |-> <<>>]
Folder == [kind |-> "folder", readable |-> FALSE, data |-> <<>>]

\* ![[path]] and ![alt](path)
WikiImage(path) == <<"!", "[", "[">> \o path \o <<"]", "]">>
MarkdownImage(alt, path) == <<"!", "[">> \o alt \o <<"]", "(">> \o path \o <<")">>

-----------------------------------------------------------------------------
(* SpecLine: processLine applied to every line made of a prefix of         *)
(* LinePrefixes and a body over LineAlphabet of length at most MaxBody.    *)

LinePrefixes ==
    {<<>>, <<"a">>, <<" ">>, <<"\t">>, <<"\r">>,
     <<"#">>, <<"#", " ">>, <<"#", "#", " ">>, <<"#", "#", "#", " ">>,
     <<"#", "#", "#", "#", " ">>, <<"#", "#">>,
     <<">">>, <<">", " ">>, <<"-">>, <<"-", " ">>, <<"*", " ">>,
     <<"1">>, <<"1", ".">>, <<"1", ".", " ">>, <<"1", "2", ".", " ">>,
     <<Backtick>>, <<Backtick, Backtick, Backtick>>,
     <<"-", "-">>, <<"-", "-", "-">>, <<"*", "*", "*">>,
     <<"[">>, <<"[", "a", "]">>, <<"[", "a", "]", "(">>, <<"[", "\r", "]", "(">>,
     <<"!">>, <<"!", "[">>, <<"!", "[", "[">>, <<"!", "[", "a", "]", "(">>,
     <<"*">>, <<"*", "*">>, <<"_">>, <<"_", "_">>, <<"_", "_", "_">>,
     <<"_", "_", "_", "a", "_", "_", "_">>}

LineAlphabet == {"a", " ", "*", "]", "(", ")"}

\* the vault of SpecLine: "a" is an 800 x 600 PNG, " " is a folder
LineVault == (<<"a">> :> File(SamplePng)) @@ (<<" ">> :> Folder)

InitLine ==
    /\ ln \in {[line |-> p \o b, out |-> LnIdle.out, done |-> FALSE] :
                  p \in LinePrefixes, b \in StringsUpTo(LineAlphabet, MaxBody)}
    /\ fmt = FmtIdle
    /\ img = ImgIdle
    /\ settings = DEFAULT_SETTINGS
    /\ vault = LineVault
    /\ NoExport

CallLine ==
    /\ ~ln.done
    /\ ln' = [ln EXCEPT !.out = ProcessLine(ln.line, vault, settings), !.done = TRUE]
    /\ UNCHANGED <<fmt, img, settings, vault, docs, currentMarkdownView, ex, folders, files>>

NextLine == CallLine

SpecLine == InitLine /\ [][NextLine]_vars

-----------------------------------------------------------------------------
(* SpecImage: processImage applied to a reference to one path, with every  *)
(* kind of entry at that path and every pair of configured bounds.         *)

ImagePaths ==
    {<<"a", ".", "p", "n", "g">>, <<"a", ".", "P", "N", "G">>, <<"a", ".", "j", "p", "g">>,
     <<"a", ".", "j", "p", "e", "g">>, <<"a", ".", "g", "i", "f">>, <<"a", ".", "b", "m", "p">>,
     <<"a", ".", "s", "v", "g">>, <<"a", ".", "w", "e", "b", "p">>, <<"a">>}

\* the references of SpecImage, each with the path it names
ImageRefs ==
    {[line |-> WikiImage(path), path |-> path] : path \in ImagePaths}
        \cup {[line |-> MarkdownImage(<<"x">>, <<"a", ".", "p", "n", "g">>),
               path |-> <<"a", ".", "p", "n", "g">>],
              [line |-> <<"!", "[", "a", ".", "p", "n", "g">>,
               path |-> <<"a", ".", "p", "n", "g">>]}

\* what the vault may hold at the path
Entries == {Folder, UnreadableFile} \cup {File(data) : data \in Buffers}

ImageBounds == (1..MaxBound) \X (1..MaxBound) \cup {<<DefaultImageMaxWidth, DefaultImageMaxHeight>>}

InitImage ==
    /\ \E ref \in ImageRefs :
          /\ img = [line |-> ref.line, out |-> NullImage, done |-> FALSE]
          /\ vault \in {<<>>} \cup {ref.path :> e : e \in Entries}
    /\ settings \in {[imageMaxWidth |-> b[1], imageMaxHeight |-> b[2]] : b \in ImageBounds}
    /\ fmt = FmtIdle
    /\ ln = LnIdle
    /\ NoExport

CallImage ==
    /\ ~img.done
    /\ img' = [img EXCEPT !.out = ProcessImage(img.line, vault, settings), !.done = TRUE]
    /\ UNCHANGED <<fmt, ln, settings, vault, docs, currentMarkdownView, ex, folders, files>>

NextImage == CallImage

SpecImage == InitImage /\ [][NextImage]_vars

-----------------------------------------------------------------------------
(* exportCurrentMarkdownToWord                                             *)

LF == <<"\n">>
CRLF == <<"\r", "\n">>

\* Mutant of Split: empty lines are dropped.
RECURSIVE SplitSkipEmpty(_)
SplitSkipEmpty(content) ==
    LET j == FindFrom(content, LF, 1)
        cut(t) == IF EndsWith(t, <<"\r">>) THEN SubSeq(t, 1, Len(t) - 1) ELSE t
        keep(t) == IF t = <<>> THEN <<>> ELSE <<t>>
    IN IF j = 0 THEN keep(content)
       ELSE keep(cut(SubSeq(content, 1, j - 1))) \o SplitSkipEmpty(Drop(content, j))

\* content.split(/\r?\n/): the separator is the next "\n" together with a
\* "\r" right before it
RECURSIVE Split(_)
Split(content) ==
    LET j == FindFrom(content, LF, 1)
        cut(t) == IF EndsWith(t, <<"\r">>) THEN SubSeq(t, 1, Len(t) - 1) ELSE t
    IN IF j = 0 THEN <<content>>
       ELSE <<cut(SubSeq(content, 1, j - 1))>> \o Split(Drop(content, j))

\* String(counter)
RECURSIVE DecimalString(_)
DecimalString(n) ==
    LET digit == <<"0", "1", "2", "3", "4", "5", "6", "7", "8", "9">>[(n % 10) + 1]
    IN IF n < 10 THEN <<digit>> ELSE Append(DecimalString(n \div 10), digit)

DocxExt == <<".", "d", "o", "c", "x">>

\* the fallback base name, written in ASCII here
DefaultBaseName == <<"e", "x", "p", "o", "r", "t">>

\* `${currentDir.path}/exports`
ExportDirOf(parent) == parent \o <<"/", "e", "x", "p", "o", "r", "t", "s">>

\* Mutant of NumberedName: the counter is appended after the extension.
NumberedNameAfterExt(fileName, counter) == fileName \o DecimalString(counter)

\* `${fileName.slice(0, -5)}${counter}.docx`
NumberedName(fileName, counter) ==
    SubSeq(fileName, 1, Len(fileName) - 5) \o DecimalString(counter) \o DocxExt

\* adapter.exists(`${dir}/${name}`) for a file
FileExists(dir, name) == \E f \in files : f.dir = dir /\ f.name = name

\* the locals of an invocation that has not started
ExIdle ==
    [pc |-> "idle", view |-> 0, hasContent |-> FALSE, content |-> <<>>, lines |-> <<>>,
     i |-> 1, paragraphs |-> <<>>, buffer |-> [src |-> 0, paragraphs |-> <<>>],
     fileName |-> <<>>, exportDir |-> <<>>, finalFileName |-> <<>>, counter |-> 1,
     notice |-> ""]

Finish(e, notice) == [e EXCEPT !.pc = "done", !.notice = notice]

\* let finalFileName = fileName; let counter = 1; and the first exists call
EnterNaming(e) == [e EXCEPT !.pc = "naming", !.finalFileName = e.fileName, !.counter = 1]

ExportFrame == <<fmt, ln, img, settings, vault, docs>>

\* exportCurrentMarkdownToWord(markdownView) up to its first await: the view
\* is stored in the shared field and getContent reads the text
Export(p, v) ==
    /\ ex[p].pc = "idle"
    /\ currentMarkdownView' = v
    /\ ex' = [ex EXCEPT ![p] =
                 [@ EXCEPT !.pc = "content", !.view = v,
                           !.hasContent = docs[v].hasFile /\ docs[v].content # <<>>,
                           !.content = docs[v].content,
                           !.notice = IF ~docs[v].hasFile THEN "noFile"
                                      ELSE IF docs[v].content = <<>> THEN "noContent"
                                      ELSE ""]]
    /\ UNCHANGED <<ExportFrame, folders, files>>

\* if (!content) return; const lines = content.split(/\r?\n/)
AfterContent(p) ==
    /\ ex[p].pc = "content"
    /\ ex' = [ex EXCEPT ![p] =
                 IF ~@.hasContent THEN Finish(@, @.notice)
                 ELSE [@ EXCEPT !.pc = "lines", !.lines = Split(ex[p].content), !.i = 1,
                                !.paragraphs = <<>>]]
    /\ UNCHANGED <<ExportFrame, currentMarkdownView, folders, files>>

\* one turn of the for loop: await this.processLine(line); paragraphs.push
LineStep(p) ==
    /\ ex[p].pc = "lines"
    /\ ex[p].i <= Len(ex[p].lines)
    /\ ex' = [ex EXCEPT ![p] =
                 [@ EXCEPT !.paragraphs =
                               Append(@, ProcessLine(ex[p].lines[ex[p].i], vault, settings)),
                           !.i = @ + 1]]
    /\ UNCHANGED <<ExportFrame, currentMarkdownView, folders, files>>

\* new Document(...); await Packer.toBlob(doc); await blob.arrayBuffer():
\* packing succeeds or throws into the outer catch
Pack(p) ==
    /\ ex[p].pc = "lines"
    /\ ex[p].i > Len(ex[p].lines)
    /\ \E ok \in BOOLEAN :
          ex' = [ex EXCEPT ![p] =
                    IF ok
                    THEN [@ EXCEPT !.pc = "packed",
                                   !.buffer = [src |-> ex[p].view,
                                               paragraphs |-> ex[p].paragraphs]]
                    ELSE Finish(@, "failed")]
    /\ UNCHANGED <<ExportFrame, currentMarkdownView, folders, files>>

\* step 4: the file name and the folder are read from the shared field
PreparePath(p) ==
    /\ ex[p].pc = "packed"
    /\ LET view == docs[currentMarkdownView]
           base == IF view.hasFile /\ view.basename # <<>> THEN view.basename
                   ELSE DefaultBaseName
       IN ex' = [ex EXCEPT ![p] =
                    IF ~view.hasFile THEN Finish([@ EXCEPT !.fileName = base \o DocxExt], "noDir")
                    ELSE [@ EXCEPT !.pc = "checkDir", !.fileName = base \o DocxExt,
                                   !.exportDir = ExportDirOf(view.parent)]]
    /\ UNCHANGED <<ExportFrame, currentMarkdownView, folders, files>>

\* if (!await adapter.exists(exportDir))
CheckDir(p) ==
    /\ ex[p].pc = "checkDir"
    /\ ex' = [ex EXCEPT ![p] =
                 IF @.exportDir \in folders THEN EnterNaming(@)
                 ELSE [@ EXCEPT !.pc = "createFolder"]]
    /\ UNCHANGED <<ExportFrame, currentMarkdownView, folders, files>>

\* await this.app.vault.createFolder(exportDir); a folder that exists by now
\* makes it throw, which is caught and logged
CreateFolder(p) ==
    /\ ex[p].pc = "createFolder"
    /\ folders' = folders \cup {ex[p].exportDir}
    /\ ex' = [ex EXCEPT ![p] = EnterNaming(@)]
    /\ UNCHANGED <<ExportFrame, currentMarkdownView, files>>

\* one test of while (await adapter.exists(`${exportDir}/${finalFileName}`))
CheckName(p) ==
    /\ ex[p].pc = "naming"
    /\ ex' = [ex EXCEPT ![p] =
                 IF FileExists(@.exportDir, @.finalFileName)
                 THEN [@ EXCEPT !.finalFileName = NumberedName(ex[p].fileName, ex[p].counter),
                                !.counter = @ + 1]
                 ELSE [@ EXCEPT !.pc = "save"]]
    /\ UNCHANGED <<ExportFrame, currentMarkdownView, folders, files>>

\* await this.app.vault.createBinary(savePath, arrayBuffer) and the check
\* that the file is there: createBinary throws when the write fails or a
\* file exists at the path by now
Save(p) ==
    /\ ex[p].pc = "save"
    /\ \E written \in BOOLEAN :
          IF written /\ ~FileExists(ex[p].exportDir, ex[p].finalFileName)
          THEN /\ files' = files \cup {[dir |-> ex[p].exportDir,
                                        name |-> ex[p].finalFileName,
                                        src |-> ex[p].buffer.src]}
               /\ ex' = [ex EXCEPT ![p] = Finish(@, "exported")]
          ELSE /\ files' = files
               /\ ex' = [ex EXCEPT ![p] = Finish(@, "failed")]
    /\ UNCHANGED <<ExportFrame, currentMarkdownView, folders>>

NextExport ==
    \/ \E p \in DOMAIN ex : \E v \in DOMAIN docs : Export(p, v)
    \/ \E p \in DOMAIN ex : AfterContent(p)
    \/ \E p \in DOMAIN ex : LineStep(p)
    \/ \E p \in DOMAIN ex : Pack(p)
    \/ \E p \in DOMAIN ex : PreparePath(p)
    \/ \E p \in DOMAIN ex : CheckDir(p)
    \/ \E p \in DOMAIN ex : CreateFolder(p)
    \/ \E p \in DOMAIN ex : CheckName(p)
    \/ \E p \in DOMAIN ex : Save(p)

-----------------------------------------------------------------------------
(* Spec: one export of a document.  SpecConc: two invocations that         *)
(* interleave at their awaits.                                             *)

\* the image files of the export specifications
ExportVault ==
    (<<"a", ".", "p", "n", "g">> :> File(SamplePng))
        @@ (<<"c", ".", "s", "v", "g">> :> File(<<60, 115, 118, 103>>))
        @@ (<<"d">> :> Folder)
        @@ (<<"u", ".", "p", "n", "g">> :> UnreadableFile)

\* the lines documents are made of
ExportLines ==
    {<<>>, <<"#", " ", "a">>, <<"*", "*", "a", "*", "*">>,
     WikiImage(<<"a", ".", "p", "n", "g">>), WikiImage(<<"b", ".", "p", "n", "g">>),
     WikiImage(<<"c", ".", "s", "v", "g">>), WikiImage(<<"u", ".", "p", "n", "g">>),
     MarkdownImage(<<"x">>, <<"d">>), <<"!", "[", "x">>}

RECURSIVE Join(_, _)
Join(ls, sep) ==
    IF Len(ls) = 1 THEN ls[1] ELSE ls[1] \o sep \o Join(Tail(ls), sep)

RECURSIVE LineLists(_)
LineLists(n) ==
    IF n = 1 THEN {<<l>> : l \in ExportLines}
    ELSE LineLists(n - 1)
             \cup {Append(ls, l) : ls \in {t \in LineLists(n - 1) : Len(t) = n - 1},
                                   l \in ExportLines}

\* the document texts: up to MaxLines lines joined by "\n" or by "\r\n"
Contents == {Join(ls, sep) : ls \in LineLists(MaxLines), sep \in {LF, CRLF}}

Doc(basename, parent, content) ==
    [hasFile |-> TRUE, basename |-> basename, parent |-> parent, content |-> content]

\* a view with no file
NoFileDoc == [hasFile |-> FALSE, basename |-> <<>>, parent |-> <<>>, content |-> <<"a">>]

\* the k-th name of the sequence base.docx, base1.docx, base2.docx, ...
Candidate(base, k) ==
    IF k = 0 THEN base \o <<".", "d", "o", "c", "x">>
    ELSE base \o DecimalString(k) \o <<".", "d", "o", "c", "x">>

\* files already in dir before the export (src 0): the names of the
\* sequence with the numbers in ks
Earlier(dir, base, ks) ==
    {[dir |-> dir, name |-> Candidate(base, k), src |-> 0] : k \in ks}

Init ==
    /\ fmt = FmtIdle
    /\ ln = LnIdle
    /\ img = ImgIdle
    /\ settings = DEFAULT_SETTINGS
    /\ vault = ExportVault
    /\ currentMarkdownView = 0
    /\ ex = <<ExIdle>>
    /\ \/ /\ \E content \in Contents : docs = <<Doc(<<"n">>, <<"p">>, content), NoFileDoc>>
          /\ files = {}
          /\ folders = {}
       \/ /\ \E base \in {<<"n">>, <<>>} : docs = <<Doc(base, <<"p">>, <<"a">>), NoFileDoc>>
          /\ folders \in {{ExportDirOf(<<"p">>), ExportDirOf(<<"q">>)}, {ExportDirOf(<<"q">>)}}
          /\ \E ks \in SUBSET (0..MaxEarlier) :
                /\ ks = {} \/ ExportDirOf(<<"p">>) \in folders
                /\ files = Earlier(ExportDirOf(<<"p">>),
                                   IF docs[1].basename = <<>> THEN DefaultBaseName
                                   ELSE docs[1].basename, ks)
                               \cup Earlier(ExportDirOf(<<"q">>), <<"n">>, {0})

Spec == Init /\ [][NextExport]_vars

InitConc ==
    /\ fmt = FmtIdle
    /\ ln = LnIdle
    /\ img = ImgIdle
    /\ settings = DEFAULT_SETTINGS
    /\ vault = ExportVault
    /\ currentMarkdownView = 0
    /\ ex = <<ExIdle, ExIdle>>
    /\ docs = <<Doc(<<"n">>, <<"p">>, <<"a">>),
                Doc(<<"m">>, <<"q">>, WikiImage(<<"a", ".", "p", "n", "g">>) \o LF \o <<"b">>),
                NoFileDoc>>
    /\ files = {}
    /\ folders = {}

SpecConc == InitConc /\ [][NextExport]_vars

-----------------------------------------------------------------------------
(* Claims about exportCurrentMarkdownToWord (checked under Spec, C8 under  *)
(* SpecConc).                                                              *)

\* the positions of the "\n" characters of content
Newlines(content) == {j \in 1..Len(content) : content[j] = "\n"}

\* the number of lines of content
LineCount(content) == Cardinality(Newlines(content)) + 1

\* the k-th line of content: the text between the (k-1)-th and the k-th
\* "\n", without the "\r" that stands right before that "\n"
NthLine(content, k) ==
    LET nl == Newlines(content)
        NthNewline(n) == CHOOSE j \in nl : Cardinality({m \in nl : m < j}) = n - 1
        first == IF k = 1 THEN 1 ELSE NthNewline(k - 1) + 1
        last == IF k = Cardinality(nl) + 1 THEN Len(content) ELSE NthNewline(k) - 1
        cr == k <= Cardinality(nl) /\ last >= first /\ content[last] = "\r"
    IN SubSeq(content, first, IF cr THEN last - 1 ELSE last)

\* the invocation has read a text and entered the loop over its lines
InLoopOrLater(e) == e.hasContent /\ e.pc \notin {"idle", "content"}

\* C1: the paragraphs pushed so far are processLine of the first lines of
\* the text, in order, one per line; once the loop is left there are as many
\* paragraphs as the text has lines, and these are what is packed.
C1_OneBlockPerLineInOrder ==
    \A p \in DOMAIN ex :
        LET e == ex[p]
        IN InLoopOrLater(e) =>
               /\ Len(e.paragraphs) = e.i - 1
               /\ Len(e.paragraphs) <= LineCount(e.content)
               /\ \A k \in 1..Len(e.paragraphs) :
                      e.paragraphs[k] = ProcessLine(NthLine(e.content, k), vault, settings)
               /\ e.pc # "lines" => Len(e.paragraphs) = LineCount(e.content)
               /\ e.buffer.src # 0 => e.buffer.paragraphs = e.paragraphs

\* a text of two lines separated by "\r\n", an empty line first, packed as
\* two paragraphs
C1_Witness ==
    \E p \in DOMAIN ex :
        /\ ex[p].pc = "packed"
        /\ ex[p].content = CRLF \o <<"#", " ", "a">>
        /\ Len(ex[p].buffer.paragraphs) = 2
        /\ ex[p].buffer.paragraphs[2].heading = 1

\* the image reference of line cannot be resolved: it does not parse, no
\* entry at its path, the entry is not a plain file, it cannot be read, or
\* the path ends in .svg
Unresolvable(line) ==
    LET ref == GetImagePath(line)
    IN \/ ~ref.found
       \/ ref.url \notin DOMAIN vault
       \/ vault[ref.url].kind # "file"
       \/ ~vault[ref.url].readable
       \/ EndsWith(ToLowerCase(ref.url), <<".", "s", "v", "g">>)

ImageLine(line) == StartsWith(line, <<"!", "[">>)

\* C5: a line starting with ![ whose image cannot be resolved becomes a
\* placeholder paragraph whose text names the line; the loop goes on to the
\* later lines, and an invocation that got a text never ends before every
\* line has its paragraph.
C5_FailedImageIsPlaceholder ==
    \A p \in DOMAIN ex :
        LET e == ex[p]
        IN InLoopOrLater(e) =>
               /\ \A k \in 1..Len(e.paragraphs) :
                      (ImageLine(e.lines[k]) /\ Unresolvable(e.lines[k])) =>
                          /\ e.paragraphs[k].children = <<>>
                          /\ e.paragraphs[k].text = FailedPrefix \o e.lines[k] \o <<"]">>
               /\ e.pc # "lines" => Len(e.paragraphs) = Len(e.lines)
               /\ e.notice = "exported" => e.buffer.paragraphs = e.paragraphs

\* a text whose first line names a missing image and whose second line is a
\* heading, exported
C5_Witness ==
    \E p \in DOMAIN ex :
        /\ ex[p].pc = "done"
        /\ ex[p].notice = "exported"
        /\ Len(ex[p].lines) = 2
        /\ ex[p].lines[1] = WikiImage(<<"b", ".", "p", "n", "g">>)
        /\ ex[p].paragraphs[1].text = FailedPrefix \o ex[p].lines[1] \o <<"]">>
        /\ ex[p].paragraphs[2].heading = 1

\* the base name exports of view v are named after
BaseNameOf(v) == IF docs[v].basename = <<>> THEN DefaultBaseName ELSE docs[v].basename

\* C8 as stated: a file written by an export holds the bytes of the view
\* it is named after, and lies in the exports folder of that view's folder.
C8_SavedUnderOwnNameAndFolder ==
    \A f \in files :
        f.src # 0 =>
            /\ f.dir = ExportDirOf(docs[f.src].parent)
            /\ \E k \in 0..Cardinality(files) : f.name = Candidate(BaseNameOf(f.src), k)

\* the names of the files in dir that were there before the export
EarlierNames(dir) == {f.name : f \in {g \in files : g.dir = dir /\ g.src = 0}}

\* the number of the first name of the sequence that is not in names
FirstFree(base, names) ==
    Min({k \in 0..Cardinality(names) : Candidate(base, k) \notin names})

\* C9: while it looks for a name the export has found the names before its
\* current one taken and has tested at most one name per file in the folder
\* (the loop ends); the name it saves under is the first of base.docx,
\* base1.docx, ... that is not in the folder, and no file there is replaced.
C9_FirstFreeName ==
    \A p \in DOMAIN ex :
        LET e == ex[p]
            base == BaseNameOf(e.view)
            names == EarlierNames(e.exportDir)
        IN /\ e.pc = "naming" =>
                  /\ e.counter <= Cardinality(names) + 1
                  /\ e.finalFileName = Candidate(base, e.counter - 1)
                  /\ \A k \in 0..(e.counter - 2) : Candidate(base, k) \in names
           /\ e.pc = "save" =>
                  /\ e.finalFileName = Candidate(base, FirstFree(base, names))
                  /\ ~FileExists(e.exportDir, e.finalFileName)
           /\ e.notice = "exported" =>
                  /\ e.finalFileName = Candidate(base, FirstFree(base, names))
                  /\ [dir |-> e.exportDir, name |-> e.finalFileName, src |-> e.view] \in files
           /\ \A f, g \in files : (f.dir = g.dir /\ f.name = g.name) => f = g

\* base.docx and base1.docx exist and the export is saved as base2.docx
C9_Witness ==
    \E p \in DOMAIN ex :
        /\ ex[p].notice = "exported"
        /\ ex[p].finalFileName = <<"n", "2", ".", "d", "o", "c", "x">>
        /\ ex[p].counter = 3
        /\ Cardinality(EarlierNames(ex[p].exportDir)) = 2

-----------------------------------------------------------------------------
(* Claims about processFormattedText (checked under SpecFmt).              *)

\* the text a run shows: an undefined text shows nothing
RunText(r) == IF r.undef THEN <<>> ELSE r.text

RECURSIVE ConcatTexts(_)
ConcatTexts(runs) ==
    IF runs = <<>> THEN <<>> ELSE RunText(Head(runs)) \o ConcatTexts(Tail(runs))

RECURSIVE BoldCount(_)
BoldCount(runs) ==
    IF runs = <<>> THEN 0
    ELSE (IF Head(runs).bold THEN 1 ELSE 0) + BoldCount(Tail(runs))

\* occurrences of delimiter d in s from k on, counted left to right without overlap
RECURSIVE CountDelim(_, _, _)
CountDelim(s, d, k) ==
    LET i == FindFrom(s, d, k)
    IN IF i = 0 THEN 0 ELSE 1 + CountDelim(s, d, i + 2)

\* every ** has a partner and every __ has a partner
Balanced(s) ==
    /\ CountDelim(s, StarStar, 1) % 2 = 0
    /\ CountDelim(s, UnderUnder, 1) % 2 = 0

\* no ** and no __ in s
Absent(s) == ~Includes(s, StarStar) /\ ~Includes(s, UnderUnder)

\* s holds no opening delimiter with the same delimiter closing it later on
\* the same line
NoPair(s) ==
    ~ \E d \in {StarStar, UnderUnder} : \E i \in 1..Len(s) : \E j \in (i + 2)..(Len(s) - 1) :
          /\ SubSeq(s, i, i + 1) = d
          /\ SubSeq(s, j, j + 1) = d
          /\ AllDot(s, i + 2, j - 1)

\* the runs spell text from position pos to its end once every bold run is
\* wrapped again in one delimiter pair (** or __)
RECURSIVE Rewraps(_, _, _)
Rewraps(runs, text, pos) ==
    IF runs = <<>> THEN pos = Len(text) + 1
    ELSE LET r == Head(runs)
             t == RunText(r)
             n == Len(t)
         IN IF r.bold
            THEN /\ pos + n + 3 <= Len(text)
                 /\ SubSeq(text, pos, pos + 1) \in {StarStar, UnderUnder}
                 /\ SubSeq(text, pos + 2, pos + n + 1) = t
                 /\ SubSeq(text, pos + n + 2, pos + n + 3) = SubSeq(text, pos, pos + 1)
                 /\ Rewraps(Tail(runs), text, pos + n + 4)
            ELSE /\ pos + n - 1 <= Len(text)
                 /\ SubSeq(text, pos, pos + n - 1) = t
                 /\ Rewraps(Tail(runs), text, pos + n)

\* C3 as stated: for a text with balanced ** / __ pairs the texts of the
\* returned spans, concatenated in order, are the original text.
C3_ConcatIsOriginal ==
    (fmt.done /\ Balanced(fmt.text)) => ConcatTexts(fmt.children) = fmt.text

\* C3 amended: the spans in order reconstruct the original text with the two
\* delimiters of every matched pair removed: wrapping each bold span again in
\* its ** or __ gives the original text exactly, and the concatenation is
\* shorter than the original by four characters per bold span.
C3_ConcatIsOriginalWithoutDelimiters ==
    fmt.done =>
        /\ Rewraps(fmt.children, fmt.text, 1)
        /\ Len(ConcatTexts(fmt.children)) = Len(fmt.text) - 4 * BoldCount(fmt.children)

\* a balanced text with a plain span, a bold span and a plain span
C3_Witness ==
    /\ fmt.done
    /\ Balanced(fmt.text)
    /\ Len(fmt.children) = 3
    /\ fmt.children[2].bold
    /\ ConcatTexts(fmt.children) # fmt.text

\* C4 as stated: a text with unbalanced or absent bold markers gives exactly
\* one span, plain, holding the whole text.
C4_UnbalancedOrAbsentIsOnePlainSpan ==
    (fmt.done /\ (~Balanced(fmt.text) \/ Absent(fmt.text)))
        => fmt.children = <<PlainRun(fmt.text)>>

\* C4 amended: exactly the texts that hold no complete delimiter pair (no
\* markers, or an opening ** / __ that nothing closes on the line) give one
\* plain span holding the whole text; a text whose markers are unbalanced
\* but that holds a complete pair gives a bold span for that pair.
C4_NoPairIsOnePlainSpan ==
    fmt.done =>
        /\ NoPair(fmt.text) => fmt.children = <<PlainRun(fmt.text)>>
        /\ ~NoPair(fmt.text) => BoldCount(fmt.children) >= 1

\* an unclosed ** gives one plain span
C4_Witness ==
    /\ fmt.done
    /\ Includes(fmt.text, StarStar)
    /\ ~Balanced(fmt.text)
    /\ NoPair(fmt.text)
    /\ fmt.children = <<PlainRun(fmt.text)>>

-----------------------------------------------------------------------------
(* Claims about processImage (checked under SpecImage).                    *)

\* the reference of img.line resolves: it parses, the vault holds a
\* readable plain file at its path, and the path does not end in .svg
Resolves ==
    LET ref == GetImagePath(img.line)
    IN /\ ref.found
       /\ ref.url \in DOMAIN vault
       /\ vault[ref.url].kind = "file"
       /\ vault[ref.url].readable
       /\ ~EndsWith(ToLowerCase(ref.url), <<".", "s", "v", "g">>)

\* the bytes of the file img.line refers to
ImageBytes == vault[GetImagePath(img.line).url].data

\* the size of the returned ImageRun
OutSize == img.out.run.image

\* a PNG file whose width or height field has its top bit set
TopBitSet(arr) == IsPngHeader(arr) /\ (At(arr, 16) >= 128 \/ At(arr, 20) >= 128)

\* C2: an image that processImage returns is never wider than imageMaxWidth
\* nor higher than imageMaxHeight; when its dimensions were read from the
\* header it is not larger than the original either (never enlarged); a PNG
\* field with the top bit set is a negative number, never a size, and the
\* image then gets the configured bounds.
C2_WithinBoundsNeverEnlarged ==
    (img.done /\ img.out.ok) =>
        /\ OutSize.width <= settings.imageMaxWidth
        /\ OutSize.height <= settings.imageMaxHeight
        /\ LET orig == OriginalSize(ImageBytes)
           IN (orig.width > 0 /\ orig.height > 0) =>
                  (OutSize.width <= orig.width /\ OutSize.height <= orig.height)
        /\ TopBitSet(ImageBytes) =>
               /\ OutSize.width = settings.imageMaxWidth
               /\ OutSize.height = settings.imageMaxHeight

\* an 800 x 600 PNG under the bounds 400 x 300 comes out 400 x 300
C2_Witness ==
    /\ img.done
    /\ img.out.ok
    /\ ImageBytes = SamplePng
    /\ settings = DEFAULT_SETTINGS
    /\ OutSize.width = 400
    /\ OutSize.height = 300

\* no FF C0 pair at any position p with 2 <= p < length - 10
NoSof0InWindow(arr) ==
    \A p \in 2..(Len(arr) - 11) : ~(At(arr, p) = 255 /\ At(arr, p + 1) = 192)

\* C6: a file that starts FF D8 and has no FF C0 pair in the scanned window
\* still gives an image, sized imageMaxWidth x imageMaxHeight, whatever its
\* length (the reference resolving to a readable file that is not .svg).
C6_JpegWithoutSof0GetsDefaults ==
    (img.done /\ Resolves /\ IsJpegHeader(ImageBytes) /\ NoSof0InWindow(ImageBytes)) =>
        /\ img.out.ok
        /\ OutSize.width = settings.imageMaxWidth
        /\ OutSize.height = settings.imageMaxHeight

\* a JPEG file shorter than 12 bytes that holds FF C0
C6_Witness ==
    /\ img.done
    /\ Resolves
    /\ ImageBytes = <<255, 216, 255, 192>>
    /\ img.out.ok
    /\ OutSize.width = settings.imageMaxWidth

-----------------------------------------------------------------------------
(* Claims about processLine (checked under SpecLine).                      *)

\* line begins with exactly k '#' characters followed by a space
ExactHashes(line, k) ==
    /\ Len(line) >= k + 1
    /\ \A i \in 1..k : line[i] = "#"
    /\ line[k + 1] = " "

\* C7: a line that begins with exactly k '#' (k in 1..3) and a space is a
\* Heading of level k whose spans are processFormattedText of the line
\* without that prefix; it is taken by heading rule k (before the
\* empty-line rule), by no other rule, and no other line is a heading.
C7_HeadingLevels ==
    ln.done =>
        /\ \A k \in 1..3 :
               ExactHashes(ln.line, k) =>
                   /\ ln.out.heading = k
                   /\ ln.out.children = ProcessFormattedText(SubSeq(ln.line, k + 2, Len(ln.line)))
                   /\ ln.out.text = <<>>
                   /\ Branch(ln.line) = k
        /\ ln.out.heading # 0 => ExactHashes(ln.line, ln.out.heading)
        /\ Cardinality({k \in 1..3 : ExactHashes(ln.line, k)}) <= 1

\* "## a" is a level 2 heading with the text "a"
C7_Witness ==
    /\ ln.done
    /\ ln.line = <<"#", "#", " ", "a">>
    /\ ln.out.heading = 2
    /\ ln.out.children = <<PlainRun(<<"a">>)>>

\* line reaches rule 11: it starts with '[' (so rules 1-10 do not take it)
\* and contains "]("
ReachesLinkRule(line) == StartsWith(line, <<"[">>) /\ Includes(line, <<"]", "(">>)

\* \[(.*?)\]\((.*?)\) matches line with '[' at i, "](" at j and ')' at k
LinkAt(line, i, j, k) ==
    /\ i < j /\ j + 2 <= k /\ k <= Len(line)
    /\ line[i] = "["
    /\ line[j] = "]" /\ line[j + 1] = "("
    /\ line[k] = ")"
    /\ AllDot(line, i + 1, j - 1)
    /\ AllDot(line, j + 2, k - 1)

LinkMatches(line) ==
    \E i, j, k \in 1..Len(line) : LinkAt(line, i, j, k)

\* the first capture: the leftmost start, then the shortest first group
FirstCapture(line) ==
    LET P == {p \in (1..Len(line)) \X (1..Len(line)) :
                 \E k \in 1..Len(line) : LinkAt(line, p[1], p[2], k)}
        best == CHOOSE p \in P : \A q \in P : p[1] < q[1] \/ (p[1] = q[1] /\ p[2] <= q[2])
    IN SubSeq(line, best[1] + 1, best[2] - 1)

\* the paragraph is one run styled Hyperlink
IsHyperlink(par) == Len(par.children) = 1 /\ par.children[1].style = "Hyperlink"

\* C10 as stated: every line that reaches rule 11 is a Hyperlink block
\* showing the first capture of the regex.
C10_EveryLinkLineIsHyperlink ==
    (ln.done /\ ReachesLinkRule(ln.line)) =>
        /\ IsHyperlink(ln.out)
        /\ ln.out.children[1].text = FirstCapture(ln.line)

\* C10 amended: a line that reaches rule 11 is a Hyperlink block showing the
\* first capture exactly when the regex matches it (a "](" is followed
\* later by ')', no line terminator inside either group); a line that
\* reaches rule 11 without a match is classified by the trailing default
\* rule, as an inline-formatted Paragraph.
C10_LinkLineIsHyperlinkWhenRegexMatches ==
    (ln.done /\ ReachesLinkRule(ln.line)) =>
        IF LinkMatches(ln.line)
        THEN /\ IsHyperlink(ln.out)
             /\ ln.out.children[1].text = FirstCapture(ln.line)
             /\ ln.out.heading = 0 /\ ln.out.style = "" /\ ln.out.text = <<>>
        ELSE /\ ~IsHyperlink(ln.out)
             /\ ln.out = Paragraph(ProcessFormattedText(ln.line), <<>>, 0, "")

\* "[a](]()" is a Hyperlink showing "a"
C10_Witness ==
    /\ ln.done
    /\ ln.line = <<"[", "a", "]", "(", "]", "(", ")">>
    /\ IsHyperlink(ln.out)
    /\ ln.out.children[1].text = <<"a">>

-----------------------------------------------------------------------------
(* Triple-marker lines (checked under SpecLine).                           *)

\* some run of the paragraph is both bold and italic
HasBoldItalicRun(par) ==
    \E i \in 1..Len(par.children) : par.children[i].bold /\ par.children[i].italics

\* C11: processLine never takes the rule-15 branch: a line that starts with
\* *** is taken by the thematic-break rule (a horizontalLine paragraph, the
\* text emptied only when the whole line is a rule), a line that starts
\* with ___ by the bold rule (the inline-formatted paragraph of the whole
\* line), and no line gives a run that is both bold and italic.
C11_TripleMarkersInterceptedEarlier ==
    ln.done =>
        /\ Branch(ln.line) # 15
        /\ StartsWith(ln.line, <<"*", "*", "*">>) =>
               /\ Branch(ln.line) = 10
               /\ ln.out.style = "horizontalLine"
               /\ ln.out.children = <<>>
               /\ ln.out.text = IF \A i \in 1..Len(ln.line) : ln.line[i] \in {"*", "-"}
                                THEN <<>> ELSE ln.line
        /\ StartsWith(ln.line, <<"_", "_", "_">>) =>
               /\ Branch(ln.line) = 13
               /\ ln.out = Paragraph(ProcessFormattedText(ln.line), <<>>, 0, "")
        /\ ~HasBoldItalicRun(ln.out)

\* "___a___" goes through the bold rule: the bold run "_a" and the plain
\* run "_", neither italic
C11_Witness ==
    /\ ln.done
    /\ ln.line = <<"_", "_", "_", "a", "_", "_", "_">>
    /\ Branch(ln.line) = 13
    /\ ln.out.children = <<BoldRun(<<"_", "a">>, FALSE), PlainRun(<<"_">>)>>

-----------------------------------------------------------------------------
(* Formats other than PNG and JPEG (checked under SpecImage).              *)

\* the path of img.line ends in none of .png, .jpg, .jpeg, .svg
OtherSuffix ==
    LET lowerUrl == ToLowerCase(GetImagePath(img.line).url)
    IN /\ ~EndsWith(lowerUrl, <<".", "p", "n", "g">>)
       /\ ~EndsWith(lowerUrl, <<".", "j", "p", "g">>)
       /\ ~EndsWith(lowerUrl, <<".", "j", "p", "e", "g">>)
       /\ ~EndsWith(lowerUrl, <<".", "s", "v", "g">>)

\* the returned image has the configured width and height
HasConfiguredSize ==
    /\ OutSize.width = settings.imageMaxWidth
    /\ OutSize.height = settings.imageMaxHeight

\* C12 as stated: an image whose suffix is none of .png, .jpg, .jpeg, .svg
\* gets imageMaxWidth x imageMaxHeight, whatever the bytes of the file are.
C12_OtherSuffixGetsConfiguredSize ==
    (img.done /\ Resolves /\ OtherSuffix) => (img.out.ok /\ HasConfiguredSize)

\* C12 amended: an image whose suffix is none of .png, .jpg, .jpeg, .svg
\* is returned, and it gets imageMaxWidth x imageMaxHeight when its bytes
\* start with neither the PNG signature nor FF D8; the header is read
\* whatever the suffix, so when the bytes carry a PNG or JPEG header with
\* positive dimensions the image is sized from them: unchanged when they
\* fit the bounds, otherwise scaled down to reach one of the bounds.
C12_SizeFollowsBytesNotSuffix ==
    (img.done /\ Resolves /\ OtherSuffix) =>
        /\ img.out.ok
        /\ (~IsPngHeader(ImageBytes) /\ ~IsJpegHeader(ImageBytes)) => HasConfiguredSize
        /\ LET orig == OriginalSize(ImageBytes)
           IN (orig.width > 0 /\ orig.height > 0) =>
                  IF orig.width <= settings.imageMaxWidth
                     /\ orig.height <= settings.imageMaxHeight
                  THEN OutSize.width = orig.width /\ OutSize.height = orig.height
                  ELSE /\ OutSize.width <= settings.imageMaxWidth
                       /\ OutSize.height <= settings.imageMaxHeight
                       /\ \/ OutSize.width = settings.imageMaxWidth
                          \/ OutSize.height = settings.imageMaxHeight

\* a.gif holding a 2 x 1 PNG under the bounds 3 x 3 comes out 2 x 1
C12_Witness ==
    /\ img.done
    /\ GetImagePath(img.line).url = <<"a", ".", "g", "i", "f">>
    /\ Resolves
    /\ ImageBytes = PngFile(<<0, 0, 0, 2>>, <<0, 0, 0, 1>>)
    /\ settings = [imageMaxWidth |-> 3, imageMaxHeight |-> 3]
    /\ img.out.ok
    /\ OutSize.width = 2
    /\ OutSize.height = 1
    /\ OutSize.type = "gif"

====
